---- MODULE Spec2Model ----
(***************************************************************************)
(* Model of gfx-gtk's RenderContext: construction, resize and the per-frame *)
(* with_gfx pipeline (capture, render, postprocess, blit-back, cleanup),    *)
(* together with the GL binding state it shares with the toolkit, and of    *)
(* the ProcLoader chain that load() builds to resolve GL entry points.      *)
(***************************************************************************)
EXTENDS Integers, Sequences, FiniteSets, TLC

\* ---------------------------------------------------------------- bounds
\* widget client-area sizes handed to new / resize are 1..MaxSize
MaxSize == 2
\* the factory hands out at most this many texture names
MaxTextures == 9
\* commands a callback leaves pending in the encoder before a flush
MaxCmds == 1
\* GL entry-point names the host asks the loader chain for are 1..MaxSymbols
MaxSymbols == 2

\* ------------------------------------------------------- GL enumerants
READ_FRAMEBUFFER == 36008
DRAW_FRAMEBUFFER == 36009
DRAW_FRAMEBUFFER_BINDING == 36006
RENDERBUFFER_BINDING == 36007
COLOR_ATTACHMENT0 == 36064
RENDERBUFFER == 36161
COLOR_BUFFER_BIT == 16384
NEAREST == 9728

\* ------------------------------------------------------------ GL names
\* framebuffer 0 is the window-system framebuffer
DefaultFb == 0
\* framebuffer objects owned by the toolkit's GlArea
GtkFbs == {1, 2}
\* the framebuffer object owned by the gfx command buffer
DeviceFbo == 3
\* the colour renderbuffer that goes with each toolkit framebuffer
GtkRb(fb) == fb + 10
\* a render target owned by the callback itself (texture name 0)
CallbackTex == 0

Sizes == 1..MaxSize
AaModes == {"Single", "Multi4", "Multi8", "Coverage"}
ShaderArgs == {"None", "Custom"}

NoAtt == [k |-> "none", id |-> 0]
RbAtt(rb) == [k |-> "rb", id |-> rb]
TexAtt(t) == [k |-> "tex", id |-> t]

Ev(op, args) == [op |-> op, args |-> args]

VARIABLES
    ctx,                        \* RenderContext fields
    factory,                    \* gfx factory: next texture name
    lastResize,                 \* request and outcome of the latest resize call
    gl,                         \* GL context binding state
    encoder,                    \* commands pending in gfx_context.encoder
    pc,                         \* position of the UI thread
    gtk_framebuffer_name,       \* with_gfx local
    gtk_renderbuffer_binding,   \* with_gfx local
    render_result,              \* with_gfx local
    postprocess_result,         \* with_gfx local
    with_gfx_result,            \* what with_gfx handed back to its caller
    entry,                      \* GL bindings in force when with_gfx was entered
    trace,                      \* calls made by with_gfx in the current frame
    libs,                       \* the four DlProcLoaders built by load()
    lookup,                     \* latest call of the function built by fn_from
    constructed                 \* aa and postprocess_shader given to new_with_loader

vars == <<ctx, factory, lastResize, gl, encoder, pc, gtk_framebuffer_name,
          gtk_renderbuffer_binding, render_result, postprocess_result,
          with_gfx_result, entry, trace, libs, lookup, constructed>>

loaderVars == <<libs, lookup>>

\* ------------------------------------------------------------- Viewport
aa_size_supersampled(aa, target_width, target_height) ==
    LET m == CASE aa = "Single" -> <<1, 1>>
               [] aa \in {"Multi4", "Multi8"} -> <<2, 2>>
               [] OTHER -> <<0, 0>>
    IN <<target_width * m[1], target_height * m[2]>>

aa_size(aa, target_width, target_height) ==
    LET m == CASE aa = "Single" -> <<1, 1>>
               [] aa \in {"Multi4", "Multi8"} -> <<1, 1>>
               [] OTHER -> <<0, 0>>
    IN <<target_width * m[1], target_height * m[2]>>

with_aa(aa, target_width, target_height) ==
    LET s == aa_size(aa, target_width, target_height)
    IN [width |-> s[1], height |-> s[2],
        target_width |-> target_width, target_height |-> target_height,
        aa |-> aa]

\* `x as u16`
as_u16(x) == x % 65536

\* -------------------------------------------------------------- Factory
Handle(id, aa, w, h) == [id |-> id, aa |-> aa, w |-> w, h |-> h]
Req(kind, aa, w, h, ok) == [kind |-> kind, aa |-> aa, w |-> w, h |-> h, ok |-> ok]

\* texture + shader view + render target view of one new texture; any of
\* the three `?` may fail, which `ok` stands for
create_gtk_compatible_render_target(f, aa, width, height, ok) ==
    [ok |-> ok,
     h |-> Handle(f.next, aa, width, height),
     f |-> [next |-> IF ok THEN f.next + 1 ELSE f.next,
            log |-> Append(f.log, Req("color", aa, width, height, ok))]]

create_gtk_compatible_depth_target(f, aa, width, height, ok) ==
    [ok |-> ok,
     h |-> Handle(f.next, aa, width, height),
     f |-> [next |-> IF ok THEN f.next + 1 ELSE f.next,
            log |-> Append(f.log, Req("depth", aa, width, height, ok))]]

create_gtk_compatible_targets_shared(f, aa, width, height, okc, okd) ==
    LET c == create_gtk_compatible_render_target(f, aa, width, height, okc)
    IN [ok |-> c.ok, color |-> c.h, depth |-> c.h, f |-> c.f]

create_gtk_compatible_targets(f, aa, width, height, okc, okd) ==
    LET c == create_gtk_compatible_render_target(f, aa, width, height, okc)
        d == create_gtk_compatible_depth_target(c.f, aa, width, height, okd)
    IN IF ~c.ok THEN [ok |-> FALSE, color |-> c.h, depth |-> c.h, f |-> c.f]
       ELSE IF ~d.ok THEN [ok |-> FALSE, color |-> c.h, depth |-> d.h, f |-> d.f]
       ELSE [ok |-> TRUE, color |-> c.h, depth |-> d.h, f |-> d.f]

\* ---------------------------------------------------------- construction
pixel_shader_code_ignores_custom(postprocess_shader, aa) ==
    IF aa = "Multi4" THEN "POST_PIXEL_SHADER_MSAA_4X"
    ELSE "POST_PIXEL_SHADER"

pixel_shader_code(postprocess_shader, aa) ==
    IF postprocess_shader # "None" THEN postprocess_shader
    ELSE IF aa = "Multi4" THEN "POST_PIXEL_SHADER_MSAA_4X"
    ELSE "POST_PIXEL_SHADER"

new_with_loader(aa, widget_width, widget_height, postprocess_shader) ==
    LET viewport == with_aa(aa, widget_width, widget_height)
        f0 == [next |-> 1, log |-> <<>>]
        t == create_gtk_compatible_targets(f0, aa, as_u16(viewport.width),
                                           as_u16(viewport.height), TRUE, TRUE)
        p == create_gtk_compatible_render_target(t.f, "Single",
                 as_u16(viewport.target_width), as_u16(viewport.target_height), TRUE)
    IN [ctx |-> [viewport |-> viewport,
                 postprocess_context |->
                     [vbuf |-> "full_screen_triangle",
                      ibuf |-> "full_screen_triangle_index",
                      pso |-> pixel_shader_code(postprocess_shader, viewport.aa),
                      sampler |-> "nearest_sampler"],
                 render_target_source |-> t.color,
                 render_target |-> t.color,
                 depth_buffer |-> t.depth,
                 postprocess_target |-> p.h],
        f |-> p.f]

NoEntry == [drawFb |-> 0, readFb |-> 0, rb |-> 0]

NoResize == [called |-> FALSE, w |-> 0, h |-> 0, cb |-> FALSE, result |-> "Ok",
             hooks |-> <<>>, log |-> <<>>]

\* a context built by new_with_loader, no frame drawn yet
InitContext(aa, w, h, sh) ==
        LET n == new_with_loader(aa, w, h, sh) IN
        /\ ctx = n.ctx
        /\ factory = [next |-> n.f.next]
        /\ lastResize = NoResize
        /\ gl = [drawFb |-> DefaultFb, readFb |-> DefaultFb, rb |-> 0,
                 att |-> [fb \in GtkFbs \cup {DeviceFbo} |-> NoAtt]]
        /\ encoder = <<>>
        /\ pc = "idle"
        /\ gtk_framebuffer_name = 0
        /\ gtk_renderbuffer_binding = 0
        /\ render_result = "none"
        /\ postprocess_result = "none"
        /\ with_gfx_result = "none"
        /\ entry = NoEntry
        /\ trace = <<>>
        /\ constructed = [aa |-> aa, postprocess_shader |-> sh]

\* ------------------------------------------------------ dl: ProcLoader
Symbols == 1..MaxSymbols

\* the loaders in the order load() names them: the current process image,
\* then "libepoxy-0", "libepoxy0", "libepoxy"
CurrentModule == 1
Loaders == 1..4

\* ptr::null()
NullPtr == 0

\* the address library i gives for symbol s
Addr(i, s) == i * 100 + s

None == [some |-> FALSE, ptr |-> NullPtr]
Some(p) == [some |-> TRUE, ptr |-> p]

DlProcLoader(i) == [k |-> "dl", i |-> i, a |-> <<>>, b |-> <<>>]
Failover(a, b) == [k |-> "failover", i |-> 0, a |-> <<a>>, b |-> <<b>>]

\* DlProcLoader::get_proc_addr: None when the library did not open or has
\* no such symbol
DlProcLoader_get_proc_addr(l, i, s) ==
    [opt |-> IF l.lib /\ s \in l.symbols THEN Some(Addr(i, s)) ELSE None,
     consulted |-> <<i>>]

RECURSIVE get_proc_addr(_, _, _)

Failover_get_proc_addr_eager(loader, L, s) ==
    LET r0 == get_proc_addr(loader.a[1], L, s)
        r1 == get_proc_addr(loader.b[1], L, s)
    IN [opt |-> IF r0.opt.some THEN r0.opt ELSE r1.opt,
        consulted |-> r0.consulted \o r1.consulted]

\* self.0.get_proc_addr(s).or_else(|| self.1.get_proc_addr(s))
Failover_get_proc_addr(loader, L, s) ==
    LET r0 == get_proc_addr(loader.a[1], L, s)
        r1 == get_proc_addr(loader.b[1], L, s)
    IN IF r0.opt.some THEN r0
       ELSE [opt |-> r1.opt, consulted |-> r0.consulted \o r1.consulted]

\* ProcLoader::get_proc_addr, dispatched on the loader's type
get_proc_addr(loader, L, s) ==
    IF loader.k = "dl" THEN DlProcLoader_get_proc_addr(L[loader.i], loader.i, s)
    ELSE Failover_get_proc_addr(loader, L, s)

fn_from_unwrap(loader, L, s) ==
    LET r == get_proc_addr(loader, L, s)
    IN [s |-> s, ptr |-> r.opt.ptr, panicked |-> ~r.opt.some,
        consulted |-> r.consulted]

\* the closure built by fn_from, applied to s
fn_from(loader, L, s) ==
    LET r == get_proc_addr(loader, L, s)
    IN [s |-> s, ptr |-> IF r.opt.some THEN r.opt.ptr ELSE NullPtr,
        panicked |-> FALSE, consulted |-> r.consulted]

load_loader_reordered ==
    Failover(DlProcLoader(CurrentModule),
             Failover(DlProcLoader(2),
                      Failover(DlProcLoader(4), DlProcLoader(3))))

\* the chain load() builds
load_loader ==
    Failover(DlProcLoader(CurrentModule),
             Failover(DlProcLoader(2),
                      Failover(DlProcLoader(3), DlProcLoader(4))))

NoLookup == [called |-> FALSE, s |-> 0, ptr |-> NullPtr, panicked |-> FALSE,
             consulted |-> <<>>]

\* what DynamicLibrary::open gave each loader and what each library exports
LoaderStates ==
    [Loaders -> {[lib |-> FALSE, symbols |-> {}]}
                \cup {[lib |-> TRUE, symbols |-> ss] : ss \in SUBSET Symbols}]

\* load(): the host's environment decides which libraries open
InitLoad ==
    /\ InitContext("Single", 1, 1, "None")
    /\ libs \in LoaderStates
    /\ lookup = NoLookup

\* epoxy::load_with calls the function built by fn_from with an entry-point name
Lookup(s) ==
    /\ lookup' = [fn_from(load_loader, libs, s) EXCEPT !.s = s]
                     @@ [called |-> TRUE]
    /\ UNCHANGED <<ctx, factory, lastResize, gl, encoder, pc, gtk_framebuffer_name,
                   gtk_renderbuffer_binding, render_result, postprocess_result,
                   with_gfx_result, entry, trace, libs, constructed>>

NextLoad == \E s \in Symbols : Lookup(s)

SpecLoad == InitLoad /\ [][NextLoad]_vars

\* the context as built on a host where load() found every entry point
Init ==
    \E aa \in AaModes, w \in Sizes, h \in Sizes, sh \in ShaderArgs :
        /\ InitContext(aa, w, h, sh)
        /\ libs = [i \in Loaders |-> [lib |-> TRUE, symbols |-> Symbols]]
        /\ lookup = NoLookup

\* ----------------------------------------------------------------- resize
size_changed_always(new_viewport, viewport) == TRUE

size_changed(new_viewport, viewport) ==
    new_viewport.width # viewport.width \/ new_viewport.height # viewport.height

\* the whole of RenderContext::resize; `fail` names the step that fails if
\* it is reached: one of the three target creations or the callback's hook
Failures == {"none", "color", "depth", "post", "hook"}

\* self as an allocation's `?` leaves it when it returns early
early_return_viewport_stored(c, new_viewport) == [c EXCEPT !.viewport = new_viewport]

early_return(c, new_viewport) == c

\* self as the callback's resize hook finds it: c before the five stores,
\* c2 after them
self_at_hook_before_stores(c, c2) == c

self_at_hook(c, c2) == c2

after_hook_rolled_back(c, c2, hook_ok) == IF hook_ok THEN c2 ELSE c

\* self as the `?` on the hook's result leaves it: the stores stay
after_hook(c, c2, hook_ok) == c2

\* render_callback.resize(&mut self.gfx_context, self.viewport.clone())
hook_call(self) == [viewport |-> self.viewport, self |-> self]

store_targets_stale_depth(c, new_viewport, color, depth, post) ==
    [c EXCEPT !.viewport = new_viewport,
              !.render_target_source = color,
              !.render_target = color,
              !.postprocess_target = post]

store_targets_rebuilds_pso(c, new_viewport, color, depth, post) ==
    [c EXCEPT !.viewport = new_viewport,
              !.render_target_source = color,
              !.render_target = color,
              !.postprocess_target = post,
              !.depth_buffer = depth,
              !.postprocess_context.pso = "POST_PIXEL_SHADER"]

\* the five stores that replace the viewport and the views
store_targets(c, new_viewport, color, depth, post) ==
    [c EXCEPT !.viewport = new_viewport,
              !.render_target_source = color,
              !.render_target = color,
              !.postprocess_target = post,
              !.depth_buffer = depth]

resize(c, f, widget_width, widget_height, cb, fail) ==
    LET new_viewport == with_aa(c.viewport.aa, widget_width, widget_height)
        f0 == [next |-> f.next, log |-> <<>>]
        t == create_gtk_compatible_targets(f0, c.viewport.aa,
                 as_u16(new_viewport.width), as_u16(new_viewport.height),
                 fail # "color", fail # "depth")
        p == create_gtk_compatible_render_target(t.f, "Single",
                 as_u16(new_viewport.target_width),
                 as_u16(new_viewport.target_height), fail # "post")
        c2 == store_targets(c, new_viewport, t.color, t.depth, p.h)
    IN IF size_changed(new_viewport, c.viewport)
       THEN IF ~t.ok THEN [ctx |-> early_return(c, new_viewport), f |-> t.f,
                               result |-> "Err", hooks |-> <<>>]
            ELSE IF ~p.ok THEN [ctx |-> early_return(c, new_viewport), f |-> p.f,
                                    result |-> "Err", hooks |-> <<>>]
            ELSE IF cb
                 THEN [ctx |-> after_hook(c, c2, fail # "hook"), f |-> p.f,
                       result |-> IF fail # "hook" THEN "Ok" ELSE "Err",
                       hooks |-> <<hook_call(self_at_hook(c, c2))>>]
                 ELSE [ctx |-> c2, f |-> p.f, result |-> "Ok", hooks |-> <<>>]
       ELSE [ctx |-> c, f |-> f0, result |-> "Ok", hooks |-> <<>>]

Resize(w, h, cb, fail) ==
    /\ pc = "idle"
    /\ \/ factory.next + 3 <= MaxTextures + 1
       \/ ~size_changed(with_aa(ctx.viewport.aa, w, h), ctx.viewport)
    /\ \E r \in {resize(ctx, factory, w, h, cb, fail)} :
        /\ ctx' = r.ctx
        /\ factory' = [next |-> r.f.next]
        /\ lastResize' = [called |-> TRUE, w |-> w, h |-> h, cb |-> cb,
                          result |-> r.result, hooks |-> r.hooks, log |-> r.f.log]
    /\ gtk_framebuffer_name' = 0
    /\ gtk_renderbuffer_binding' = 0
    /\ render_result' = "none"
    /\ postprocess_result' = "none"
    /\ with_gfx_result' = "none"
    /\ entry' = NoEntry
    /\ trace' = <<>>
    /\ UNCHANGED loaderVars
    /\ UNCHANGED constructed
    /\ UNCHANGED <<gl, encoder, pc>>

\* ------------------------------------------------------------ raw GL calls
get_current_draw_framebuffer_name(g) == g.drawFb

get_current_renderbuffer_binding_fb(g) == g.drawFb

get_current_renderbuffer_binding(g) == g.rb

BindFramebuffer(g, target, fb) ==
    IF target = READ_FRAMEBUFFER THEN [g EXCEPT !.readFb = fb]
    ELSE IF target = DRAW_FRAMEBUFFER THEN [g EXCEPT !.drawFb = fb]
    ELSE [g EXCEPT !.readFb = fb, !.drawFb = fb]

NamedFramebufferRenderbuffer_skipped(g, fb, attachment, rbtarget, rb) == g

\* attaching to a name that is not a framebuffer object is a GL error
NamedFramebufferRenderbuffer(g, fb, attachment, rbtarget, rb) ==
    IF fb \in DOMAIN g.att /\ attachment = COLOR_ATTACHMENT0
    THEN [g EXCEPT !.att[fb] = RbAtt(rb)]
    ELSE g

\* ------------------------------------------------------- gfx device/encoder
\* one encoded clear/draw whose colour target is the view of texture t: the
\* device binds its own framebuffer object for drawing and attaches t
BindPixelTargets(g, t) ==
    [g EXCEPT !.drawFb = DeviceFbo, !.att[DeviceFbo] = TexAtt(t)]

RECURSIVE process(_, _)
process(g, cmds) ==
    IF cmds = <<>> THEN g
    ELSE process(BindPixelTargets(g, Head(cmds)), Tail(cmds))

\* Encoder::flush -> Device::submit: the device may first reset its GL state
\* (framebuffer 0 for reading and drawing), then replays the commands
submit(g, cmds, reset) ==
    process(IF reset THEN [g EXCEPT !.drawFb = DefaultFb, !.readFb = DefaultFb]
            ELSE g, cmds)

\* PostprocessContext::full_screen_blit: one draw into post_target
full_screen_blit(enc, render_screen, post_target) == Append(enc, post_target.id)

\* ------------------------------------------------------------ with_gfx
is_ok_any(r) == TRUE

is_ok_continue_only(r) == r = "Continue"

is_ok(r) == r \in {"Continue", "Skip"}

invokes_postprocess_on_ok(r) == r \in {"Continue", "Skip"}

\* the match on render_result: is the postprocess callback invoked?
invokes_postprocess(r) == r = "Continue"

\* GlArea machinery before the render signal: the widget's framebuffer is
\* bound and its colour renderbuffer attached
ToolkitAttachBuffers(fb) ==
    /\ pc = "idle"
    /\ pc' = "ready"
    /\ gl' = [gl EXCEPT !.drawFb = fb, !.readFb = fb, !.rb = GtkRb(fb),
                        !.att[fb] = RbAtt(GtkRb(fb))]
    /\ UNCHANGED loaderVars
    /\ UNCHANGED constructed
    /\ UNCHANGED <<ctx, factory, lastResize, encoder, gtk_framebuffer_name,
                   gtk_renderbuffer_binding, render_result, postprocess_result,
                   with_gfx_result, entry, trace>>

with_gfx_captures_kept(g, kept) ==
    IF kept.fb # 0 THEN kept
    ELSE [fb |-> get_current_draw_framebuffer_name(g),
          rb |-> get_current_renderbuffer_binding(g)]

\* the two locals with_gfx queries on entry; `kept` is what an earlier call
\* captured, of which nothing is stored on self
with_gfx_captures(g, kept) ==
    [fb |-> get_current_draw_framebuffer_name(g),
     rb |-> get_current_renderbuffer_binding(g)]

\* with_gfx up to the point where the render callback has control
WithGfxEnter ==
    /\ pc = "ready"
    /\ pc' = "render"
    /\ entry' = [drawFb |-> gl.drawFb, readFb |-> gl.readFb, rb |-> gl.rb]
    /\ LET cap == with_gfx_captures(gl, [fb |-> gtk_framebuffer_name,
                                          rb |-> gtk_renderbuffer_binding])
       IN /\ gtk_framebuffer_name' = cap.fb
          /\ gtk_renderbuffer_binding' = cap.rb
    /\ render_result' = "none"
    /\ postprocess_result' = "none"
    /\ with_gfx_result' = "none"
    /\ trace' = << Ev("GetIntegerv", <<DRAW_FRAMEBUFFER_BINDING>>),
                   Ev("GetIntegerv", <<RENDERBUFFER_BINDING>>),
                   Ev("render", <<ctx.render_target.id, ctx.depth_buffer.id,
                                  ctx.viewport.width, ctx.viewport.height>>) >>
    /\ lastResize' = NoResize
    /\ UNCHANGED loaderVars
    /\ UNCHANGED constructed
    /\ UNCHANGED <<ctx, factory, gl, encoder>>

\* --- what a callback may do while it has control
CallbackTargets ==
    IF pc = "render" THEN {ctx.render_target.id, CallbackTex}
    ELSE {ctx.postprocess_target.id, CallbackTex}

CbEncode(t) ==
    /\ pc \in {"render", "postprocess"}
    /\ Len(encoder) < MaxCmds
    /\ encoder' = Append(encoder, t)
    /\ UNCHANGED loaderVars
    /\ UNCHANGED constructed
    /\ UNCHANGED <<ctx, factory, lastResize, gl, pc, gtk_framebuffer_name,
                   gtk_renderbuffer_binding, render_result, postprocess_result,
                   with_gfx_result, entry, trace>>

CbFlush(reset) ==
    /\ pc \in {"render", "postprocess"}
    /\ gl' = submit(gl, encoder, reset)
    /\ encoder' = <<>>
    /\ UNCHANGED loaderVars
    /\ UNCHANGED constructed
    /\ UNCHANGED <<ctx, factory, lastResize, pc, gtk_framebuffer_name,
                   gtk_renderbuffer_binding, render_result, postprocess_result,
                   with_gfx_result, entry, trace>>

\* the callback is free to make GL calls of its own
CbDetach ==
    /\ pc \in {"render", "postprocess"}
    /\ gl.att[gtk_framebuffer_name] # NoAtt
    /\ gl' = [gl EXCEPT !.att[gtk_framebuffer_name] = NoAtt]
    /\ trace' = Append(trace, Ev("callback.detach", <<gtk_framebuffer_name>>))
    /\ UNCHANGED loaderVars
    /\ UNCHANGED constructed
    /\ UNCHANGED <<ctx, factory, lastResize, encoder, pc, gtk_framebuffer_name,
                   gtk_renderbuffer_binding, render_result, postprocess_result,
                   with_gfx_result, entry>>

\* --- the blit-back block
blit_back_transposed(g, gtk_fb, gtk_rb, viewport) ==
    LET gfx_framebuffer_name == get_current_draw_framebuffer_name(g)
        g1 == BindFramebuffer(g, READ_FRAMEBUFFER, gfx_framebuffer_name)
        g2 == BindFramebuffer(g1, DRAW_FRAMEBUFFER, gtk_fb)
        g3 == NamedFramebufferRenderbuffer(g2, gtk_fb, COLOR_ATTACHMENT0,
                                           RENDERBUFFER, gtk_rb)
    IN [gl |-> g3,
        calls |-> << Ev("GetIntegerv", <<DRAW_FRAMEBUFFER_BINDING>>),
                     Ev("BindFramebuffer", <<READ_FRAMEBUFFER, gfx_framebuffer_name>>),
                     Ev("BindFramebuffer", <<DRAW_FRAMEBUFFER, gtk_fb>>),
                     Ev("NamedFramebufferRenderbuffer",
                        <<gtk_fb, COLOR_ATTACHMENT0, RENDERBUFFER, gtk_rb>>),
                     Ev("BlitFramebuffer",
                        <<0, 0, viewport.target_width, viewport.target_height,
                          0, 0, viewport.target_height, viewport.target_width,
                          COLOR_BUFFER_BIT, NEAREST>>),
                     Ev("Flush", <<>>) >>]

blit_back_query_late(g, gtk_fb, gtk_rb, viewport) ==
    LET g1 == BindFramebuffer(g, DRAW_FRAMEBUFFER, gtk_fb)
        gfx_framebuffer_name == get_current_draw_framebuffer_name(g1)
        g2 == BindFramebuffer(g1, READ_FRAMEBUFFER, gfx_framebuffer_name)
        g3 == NamedFramebufferRenderbuffer(g2, gtk_fb, COLOR_ATTACHMENT0,
                                           RENDERBUFFER, gtk_rb)
    IN [gl |-> g3,
        calls |-> << Ev("BindFramebuffer", <<DRAW_FRAMEBUFFER, gtk_fb>>),
                     Ev("GetIntegerv", <<DRAW_FRAMEBUFFER_BINDING>>),
                     Ev("BindFramebuffer", <<READ_FRAMEBUFFER, gfx_framebuffer_name>>),
                     Ev("NamedFramebufferRenderbuffer",
                        <<gtk_fb, COLOR_ATTACHMENT0, RENDERBUFFER, gtk_rb>>),
                     Ev("BlitFramebuffer",
                        <<0, 0, viewport.target_width, viewport.target_height,
                          0, 0, viewport.target_width, viewport.target_height,
                          COLOR_BUFFER_BIT, NEAREST>>),
                     Ev("Flush", <<>>) >>]

blit_back(g, gtk_fb, gtk_rb, viewport) ==
    LET gfx_framebuffer_name == get_current_draw_framebuffer_name(g)
        g1 == BindFramebuffer(g, READ_FRAMEBUFFER, gfx_framebuffer_name)
        g2 == BindFramebuffer(g1, DRAW_FRAMEBUFFER, gtk_fb)
        g3 == NamedFramebufferRenderbuffer(g2, gtk_fb, COLOR_ATTACHMENT0,
                                           RENDERBUFFER, gtk_rb)
    IN [gl |-> g3,
        calls |-> << Ev("GetIntegerv", <<DRAW_FRAMEBUFFER_BINDING>>),
                     Ev("BindFramebuffer", <<READ_FRAMEBUFFER, gfx_framebuffer_name>>),
                     Ev("BindFramebuffer", <<DRAW_FRAMEBUFFER, gtk_fb>>),
                     Ev("NamedFramebufferRenderbuffer",
                        <<gtk_fb, COLOR_ATTACHMENT0, RENDERBUFFER, gtk_rb>>),
                     Ev("BlitFramebuffer",
                        <<0, 0, viewport.target_width, viewport.target_height,
                          0, 0, viewport.target_width, viewport.target_height,
                          COLOR_BUFFER_BIT, NEAREST>>),
                     Ev("Flush", <<>>) >>]

cleanup_missing(tr) == tr

cleanup(tr) == Append(tr, Ev("device.cleanup", <<>>))

finish_frame_unchecked(g, tr, pres) ==
    LET b == blit_back(g, gtk_framebuffer_name, gtk_renderbuffer_binding,
                       ctx.viewport)
    IN [gl |-> b.gl, trace |-> cleanup(tr \o b.calls)]

\* with_gfx from `if postprocess_result.is_ok()` to its end
finish_frame(g, tr, pres) ==
    LET b == blit_back(g, gtk_framebuffer_name, gtk_renderbuffer_binding,
                       ctx.viewport)
    IN IF is_ok(pres)
       THEN [gl |-> b.gl, trace |-> cleanup(tr \o b.calls)]
       ELSE [gl |-> g, trace |-> cleanup(tr)]

\* with_gfx returns (): nothing of the callbacks' results reaches the caller
with_gfx_return(rres, pres) == "unit"

\* the render callback returns; with_gfx runs on to the next callback or to its end
RenderReturn(r, reset) ==
    /\ pc = "render"
    /\ render_result' = r
    /\ LET tr == Append(trace, Ev("render.return", <<>>)) IN
       IF invokes_postprocess(r)
       THEN /\ pc' = "postprocess"
            /\ trace' = Append(tr, Ev("postprocess",
                           <<ctx.render_target_source.id, ctx.postprocess_target.id>>))
            /\ UNCHANGED <<gl, encoder, postprocess_result, with_gfx_result>>
       ELSE LET pres == IF is_ok(r) THEN "Skip" ELSE "Err"
                g1 == IF is_ok(r) THEN submit(gl, encoder, reset) ELSE gl
                tr1 == IF is_ok(r) THEN Append(tr, Ev("encoder.flush", <<>>)) ELSE tr
                fin == finish_frame(g1, tr1, pres)
            IN /\ pc' = "idle"
               /\ postprocess_result' = pres
               /\ encoder' = IF is_ok(r) THEN <<>> ELSE encoder
               /\ gl' = fin.gl
               /\ trace' = fin.trace
               /\ with_gfx_result' = with_gfx_return(r, pres)
    /\ UNCHANGED loaderVars
    /\ UNCHANGED constructed
    /\ UNCHANGED <<ctx, factory, lastResize, gtk_framebuffer_name,
                   gtk_renderbuffer_binding, entry>>

\* a postprocess callback returns; with_gfx runs to its end
PostprocessReturn(r) ==
    /\ pc = "postprocess"
    /\ postprocess_result' = r
    /\ LET fin == finish_frame(gl, Append(trace, Ev("postprocess.return", <<>>)), r)
       IN /\ gl' = fin.gl
          /\ trace' = fin.trace
    /\ pc' = "idle"
    /\ with_gfx_result' = with_gfx_return(render_result, r)
    /\ UNCHANGED loaderVars
    /\ UNCHANGED constructed
    /\ UNCHANGED <<ctx, factory, lastResize, encoder, gtk_framebuffer_name,
                   gtk_renderbuffer_binding, render_result, entry>>

\* the default GlPostprocessCallback::postprocess body, then with_gfx to its end
PostprocessDefault(reset) ==
    /\ pc = "postprocess"
    /\ postprocess_result' = "Continue"
    /\ LET enc == full_screen_blit(encoder, ctx.render_target_source,
                                   ctx.postprocess_target)
           g1 == submit(gl, enc, reset)
           fin == finish_frame(g1, Append(trace, Ev("postprocess.return", <<>>)),
                               "Continue")
       IN /\ gl' = fin.gl
          /\ trace' = fin.trace
    /\ encoder' = <<>>
    /\ pc' = "idle"
    /\ with_gfx_result' = with_gfx_return(render_result, "Continue")
    /\ UNCHANGED loaderVars
    /\ UNCHANGED constructed
    /\ UNCHANGED <<ctx, factory, lastResize, gtk_framebuffer_name,
                   gtk_renderbuffer_binding, render_result, entry>>

\* the frame pipeline with callbacks that encode, flush and call GL at will
Next ==
    \/ \E fb \in GtkFbs : ToolkitAttachBuffers(fb)
    \/ WithGfxEnter
    \/ \E t \in CallbackTargets : CbEncode(t)
    \/ \E reset \in BOOLEAN : CbFlush(reset)
    \/ CbDetach
    \/ \E r \in {"Continue", "Skip", "Err"}, reset \in BOOLEAN : RenderReturn(r, reset)
    \/ \E r \in {"Continue", "Skip", "Err"} : PostprocessReturn(r)
    \/ \E reset \in BOOLEAN : PostprocessDefault(reset)

Spec == Init /\ [][Next]_vars

\* resize events delivered to the context between frames
NextResize ==
    \E w \in Sizes, h \in Sizes, cb \in BOOLEAN, fail \in Failures :
        Resize(w, h, cb, fail)

SpecResize == Init /\ [][NextResize]_vars

\* a session of the widget: resize events between frames, frames whose
\* callbacks return at once or run the default postprocess
NextSession ==
    \/ \E w \in Sizes, h \in Sizes, cb \in BOOLEAN, fail \in {"none", "hook"} :
           Resize(w, h, cb, fail)
    \/ \E fb \in GtkFbs : ToolkitAttachBuffers(fb)
    \/ WithGfxEnter
    \/ \E r \in {"Continue", "Skip", "Err"}, reset \in BOOLEAN : RenderReturn(r, reset)
    \/ \E r \in {"Continue", "Skip", "Err"} : PostprocessReturn(r)
    \/ \E reset \in BOOLEAN : PostprocessDefault(reset)

SpecSession == Init /\ [][NextSession]_vars

\* widget sizes are i32: besides the small ones, sizes past the 16-bit range
\* of gfx::texture::Size
WideSizes == Sizes \cup {65536 + x : x \in Sizes}

InitWide ==
    \E aa \in AaModes, w \in WideSizes, h \in WideSizes, sh \in ShaderArgs :
        /\ InitContext(aa, w, h, sh)
        /\ libs = [i \in Loaders |-> [lib |-> TRUE, symbols |-> Symbols]]
        /\ lookup = NoLookup

\* resize events with sizes from the whole i32 range
NextWide ==
    \E w \in WideSizes, h \in WideSizes, cb \in BOOLEAN : Resize(w, h, cb, "none")

SpecWide == InitWide /\ [][NextWide]_vars

TypeOK ==
    /\ pc \in {"idle", "ready", "render", "postprocess"}
    /\ gl.drawFb \in {DefaultFb, DeviceFbo} \cup GtkFbs
    /\ gl.readFb \in {DefaultFb, DeviceFbo} \cup GtkFbs
    /\ Len(encoder) <= MaxCmds
    /\ render_result \in {"none", "Continue", "Skip", "Err"}
    /\ postprocess_result \in {"none", "Continue", "Skip", "Err"}

\* ------------------------------------------------------------ properties
Count(op) == Cardinality({i \in 1..Len(trace) : trace[i].op = op})

InFrame == pc \in {"render", "postprocess"}

\* with_gfx has returned and nothing has happened since
FrameDone == pc = "idle" /\ trace # <<>>

BlitBackOps == {"BindFramebuffer", "NamedFramebufferRenderbuffer",
                "BlitFramebuffer", "Flush"}

NoBlitBackCall == \A i \in 1..Len(trace) : trace[i].op \notin BlitBackOps

\* C1: in every frame the postprocess callback is invoked exactly once when
\* the render callback returned Ok(Continue), never when it returned Ok(Skip)
\* or Err, and never before the render callback has returned
C1_PostprocessGatedByRender ==
    /\ render_result = "Continue" => Count("postprocess") = 1
    /\ render_result \in {"none", "Skip", "Err"} => Count("postprocess") = 0
    /\ \A i \in 1..Len(trace) :
          trace[i].op = "postprocess" =>
              \E j \in 1..(i - 1) : trace[j].op = "render.return"

C1_Witness ==
    FrameDone /\ render_result = "Continue" /\ Count("postprocess") = 1

\* C2: after a frame whose render callback returned Ok(Skip), with_gfx has
\* flushed the encoder itself and the framebuffer bound for reading by the
\* blit-back holds the primary off-screen colour target
C2_SkipBlitsFromPrimaryTarget ==
    (FrameDone /\ render_result = "Skip") =>
        /\ Count("encoder.flush") = 1
        /\ gl.readFb \in DOMAIN gl.att
        /\ gl.att[gl.readFb] = TexAtt(ctx.render_target.id)

\* C3: a frame whose render callback returned Err makes no postprocess call
\* and no blit-back GL call, and runs device cleanup exactly once
C3_RenderErrAbortsFrame ==
    (FrameDone /\ render_result = "Err") =>
        /\ Count("postprocess") = 0
        /\ NoBlitBackCall
        /\ Count("device.cleanup") = 1

C3_Witness ==
    FrameDone /\ render_result = "Err" /\ gl.drawFb = DeviceFbo

\* C4: device cleanup runs exactly once per with_gfx call, as its last step,
\* on every path through the frame
C4_CleanupOnceAndLast ==
    /\ InFrame => Count("device.cleanup") = 0
    /\ FrameDone =>
          /\ Count("device.cleanup") = 1
          /\ trace[Len(trace)].op = "device.cleanup"

C4_Witness ==
    FrameDone /\ render_result = "Skip" /\ Count("BlitFramebuffer") = 1
       /\ trace[Len(trace)].op = "device.cleanup"

\* C5: when the postprocess callback returns Err after render returned
\* Ok(Continue), no blit-back GL call is issued and device cleanup still runs
C5_PostprocessErrAbortsFrame ==
    (FrameDone /\ render_result = "Continue" /\ postprocess_result = "Err") =>
        /\ NoBlitBackCall
        /\ Count("device.cleanup") = 1

C5_Witness ==
    FrameDone /\ render_result = "Continue" /\ postprocess_result = "Err"
       /\ Count("postprocess") = 1

\* C6: an error returned by the render or postprocess callback reaches the
\* caller of with_gfx as an error result
C6_ErrorReachesCaller ==
    (FrameDone /\ (render_result = "Err" \/ postprocess_result = "Err")) =>
        with_gfx_result = "Err"

\* C7: the toolkit's draw framebuffer and renderbuffer binding are captured
\* before the render callback or any other step of the frame runs, so the
\* captured values are the bindings in force on entry to with_gfx
C7_CaptureBeforeRender ==
    (InFrame \/ FrameDone) =>
        /\ gtk_framebuffer_name = entry.drawFb
        /\ gtk_renderbuffer_binding = entry.rb
        /\ Len(trace) >= 3
        /\ trace[1] = Ev("GetIntegerv", <<DRAW_FRAMEBUFFER_BINDING>>)
        /\ trace[2] = Ev("GetIntegerv", <<RENDERBUFFER_BINDING>>)
        /\ trace[3].op = "render"
        /\ \A i \in 1..Len(trace) :
              trace[i].op = "NamedFramebufferRenderbuffer" =>
                  trace[i].args = <<entry.drawFb, COLOR_ATTACHMENT0,
                                    RENDERBUFFER, entry.rb>>

C7_Witness ==
    /\ pc = "postprocess"
    /\ gl.drawFb # entry.drawFb
    /\ gtk_framebuffer_name = entry.drawFb
    /\ gtk_renderbuffer_binding = entry.rb

\* C8: at the end of every frame that reaches blit-back, the draw framebuffer
\* binding is the toolkit framebuffer captured at frame start and its colour
\* attachment 0 is the renderbuffer captured at frame start
C8_BlitBackRestoresToolkitBindings ==
    (FrameDone /\ Count("BlitFramebuffer") > 0) =>
        /\ gl.drawFb = gtk_framebuffer_name
        /\ gl.att[gtk_framebuffer_name] = RbAtt(gtk_renderbuffer_binding)
        /\ gl.drawFb = entry.drawFb
        /\ gl.att[entry.drawFb] = RbAtt(entry.rb)

C8_Witness ==
    /\ FrameDone
    /\ Count("BlitFramebuffer") = 1
    /\ Count("callback.detach") = 1
    /\ gl.readFb = DeviceFbo
    /\ gl.att[entry.drawFb] = RbAtt(entry.rb)

\* C9: when with_gfx returns, on every path, the draw framebuffer binding is
\* the one that was in force on entry
C9_DrawBindingRestoredOnEveryPath ==
    FrameDone => gl.drawFb = entry.drawFb

\* C10: a resize whose size yields the current off-screen width and height
\* allocates nothing, leaves the viewport and every stored target as they
\* were, does not invoke the callback's resize hook and returns Ok
C10_SameSizeResizeIsNoop ==
    [][ ( /\ pc = "idle"
          /\ pc' = "idle"
          /\ lastResize'.called
          /\ LET nv == with_aa(ctx.viewport.aa, lastResize'.w, lastResize'.h)
             IN nv.width = ctx.viewport.width /\ nv.height = ctx.viewport.height )
        => ( /\ ctx' = ctx
             /\ factory' = factory
             /\ lastResize'.log = <<>>
             /\ lastResize'.hooks = <<>>
             /\ lastResize'.result = "Ok" ) ]_vars

C10_Witness ==
    /\ lastResize.called
    /\ lastResize.cb
    /\ lastResize.log = <<>>
    /\ lastResize.result = "Ok"
    /\ factory.next > 4
    /\ LET nv == with_aa(ctx.viewport.aa, lastResize.w, lastResize.h)
       IN nv.width = ctx.viewport.width /\ nv.height = ctx.viewport.height

\* ------------------------------------------------- properties of resize
\* the viewport a resize call computes from the context's aa mode
RequestedViewport(c, r) == with_aa(c.viewport.aa, r.w, r.h)

AllAllocated(r) == \A i \in 1..Len(r.log) : r.log[i].ok

\* C11: a resize whose size yields different off-screen dimensions, and whose
\* allocations succeed, requests the colour target, the depth target and the
\* postprocess target exactly once each, stores the new viewport and the new
\* views in place of the old ones, and calls the resize hook once when a
\* callback is supplied and not at all otherwise
C11_ResizeReallocatesOnce ==
    [][ ( /\ lastResize'.called
          /\ size_changed(RequestedViewport(ctx, lastResize'), ctx.viewport)
          /\ AllAllocated(lastResize') )
        => LET nv == RequestedViewport(ctx, lastResize')
               aa == ctx.viewport.aa
               n == factory.next
           IN /\ lastResize'.log =
                    << Req("color", aa, as_u16(nv.width), as_u16(nv.height), TRUE),
                       Req("depth", aa, as_u16(nv.width), as_u16(nv.height), TRUE),
                       Req("color", "Single", as_u16(nv.target_width),
                           as_u16(nv.target_height), TRUE) >>
              /\ factory'.next = n + 3
              /\ ctx'.viewport = nv
              /\ ctx'.render_target =
                    Handle(n, aa, as_u16(nv.width), as_u16(nv.height))
              /\ ctx'.render_target_source = ctx'.render_target
              /\ ctx'.depth_buffer =
                    Handle(n + 1, aa, as_u16(nv.width), as_u16(nv.height))
              /\ ctx'.postprocess_target =
                    Handle(n + 2, "Single", as_u16(nv.target_width),
                           as_u16(nv.target_height))
              /\ ctx'.render_target # ctx.render_target
              /\ ctx'.depth_buffer # ctx.depth_buffer
              /\ ctx'.postprocess_target # ctx.postprocess_target
              /\ Len(lastResize'.hooks) = (IF lastResize'.cb THEN 1 ELSE 0) ]_vars

C11_Witness ==
    /\ lastResize.called
    /\ lastResize.cb
    /\ lastResize.result = "Ok"
    /\ Len(lastResize.log) = 3
    /\ Len(lastResize.hooks) = 1
    /\ factory.next = 7
    /\ ctx.depth_buffer.id = 5
    /\ ctx.viewport.target_width = lastResize.w

\* C12: when the colour/depth allocation or the postprocess-target allocation
\* fails, resize returns Err, the viewport and every stored target are what
\* they were before the call, and the resize hook is not called
C12_FailedResizeKeepsLastGood ==
    [][ ( /\ lastResize'.called
          /\ ~AllAllocated(lastResize') )
        => /\ lastResize'.result = "Err"
           /\ ctx'.viewport = ctx.viewport
           /\ ctx'.render_target = ctx.render_target
           /\ ctx'.render_target_source = ctx.render_target_source
           /\ ctx'.depth_buffer = ctx.depth_buffer
           /\ ctx'.postprocess_target = ctx.postprocess_target
           /\ lastResize'.hooks = <<>> ]_vars

C12_Witness ==
    /\ lastResize.called
    /\ lastResize.cb
    /\ lastResize.result = "Err"
    /\ Len(lastResize.log) = 3
    /\ ~lastResize.log[3].ok
    /\ lastResize.hooks = <<>>
    /\ size_changed(RequestedViewport(ctx, lastResize), ctx.viewport)

\* C13: when the resize hook is called, the context already holds the new
\* viewport and the newly allocated targets, and the viewport handed to the
\* hook is the context's new viewport
C13_HookAfterStores ==
    lastResize.hooks # <<>> =>
        /\ Len(lastResize.hooks) = 1
        /\ lastResize.hooks[1].self = ctx
        /\ lastResize.hooks[1].viewport = ctx.viewport
        /\ lastResize.hooks[1].viewport = RequestedViewport(ctx, lastResize)
        /\ lastResize.hooks[1].self.render_target.id = factory.next - 3
        /\ lastResize.hooks[1].self.depth_buffer.id = factory.next - 2
        /\ lastResize.hooks[1].self.postprocess_target.id = factory.next - 1

C13_Witness ==
    /\ lastResize.called
    /\ Len(lastResize.hooks) = 1
    /\ lastResize.hooks[1].viewport.target_width = 2
    /\ lastResize.hooks[1].self.render_target.id = 4
    /\ ctx.render_target.id = 4

\* C14: for every aa mode the viewport built by with_aa has width equal to
\* target_width and height equal to target_height
C14_MultiplierAlwaysOne ==
    /\ ctx.viewport.width = ctx.viewport.target_width
    /\ ctx.viewport.height = ctx.viewport.target_height

\* C14 as amended: the multiplier is 1 for Single and for every Multi(_); for
\* any other aa mode it is 0, so width and height are both 0
C14_MultiplierOneForSingleAndMulti ==
    /\ ctx.viewport.aa \in {"Single", "Multi4", "Multi8"} =>
          /\ ctx.viewport.width = ctx.viewport.target_width
          /\ ctx.viewport.height = ctx.viewport.target_height
    /\ ctx.viewport.aa \notin {"Single", "Multi4", "Multi8"} =>
          /\ ctx.viewport.width = 0
          /\ ctx.viewport.height = 0
    /\ lastResize.called =>
          LET nv == RequestedViewport(ctx, lastResize)
          IN IF ctx.viewport.aa \in {"Single", "Multi4", "Multi8"}
             THEN nv.width = lastResize.w /\ nv.height = lastResize.h
             ELSE nv.width = 0 /\ nv.height = 0

C14_Witness ==
    /\ lastResize.called
    /\ lastResize.result = "Ok"
    /\ lastResize.log # <<>>
    /\ ctx.viewport.aa = "Multi8"
    /\ ctx.viewport.width = 2
    /\ ctx.viewport.target_width = 2
    /\ ctx.viewport.height = 1

\* ------------------------------------- properties of a session of frames
\* C15: at every point of a session the stored colour and depth targets are
\* the ones requested for the current viewport's width x height (as converted
\* for the allocator) and the postprocess target the one requested for
\* target_width x target_height, all three from the latest allocation, and
\* the render callback of a frame is handed exactly these targets and this
\* viewport
C15_TargetsMatchViewport ==
    LET vp == ctx.viewport
        rt == ctx.render_target
    IN /\ rt = Handle(rt.id, vp.aa, as_u16(vp.width), as_u16(vp.height))
       /\ ctx.render_target_source = rt
       /\ ctx.depth_buffer =
             Handle(rt.id + 1, vp.aa, as_u16(vp.width), as_u16(vp.height))
       /\ ctx.postprocess_target =
             Handle(rt.id + 2, "Single", as_u16(vp.target_width),
                    as_u16(vp.target_height))
       /\ rt.id = factory.next - 3
       /\ (InFrame \/ FrameDone) =>
             trace[3] = Ev("render", <<rt.id, ctx.depth_buffer.id,
                                       vp.width, vp.height>>)
       /\ \A i \in 1..Len(trace) :
             trace[i].op = "postprocess" =>
                 trace[i].args = <<rt.id, ctx.postprocess_target.id>>

C15_Witness ==
    /\ pc = "postprocess"
    /\ ctx.render_target.id = 7
    /\ trace[3].args = <<7, 8, 2, 1>>
    /\ ctx.viewport.target_width = 2
    /\ ctx.viewport.target_height = 1

\* C19: a frame that blits back ends with exactly these calls in this order:
\* the query of the draw framebuffer binding, that name bound for reading,
\* the captured toolkit framebuffer bound for drawing, the captured
\* renderbuffer attached as colour attachment 0, BlitFramebuffer, Flush, and
\* only then device cleanup; a toolkit framebuffer is bound for reading only
\* if it was the draw binding before the draw binding was changed
C19_BlitBackCallOrder ==
    [][ (pc # "idle" /\ pc' = "idle" /\ trace' # <<>>
            /\ \E i \in 1..Len(trace') : trace'[i].op = "BlitFramebuffer")
        => LET tr == trace'
               n == Len(tr)
               fb == gtk_framebuffer_name'
               rb == gtk_renderbuffer_binding'
           IN /\ n >= 10
              /\ tr[n - 6] = Ev("GetIntegerv", <<DRAW_FRAMEBUFFER_BINDING>>)
              /\ tr[n - 5].op = "BindFramebuffer"
              /\ tr[n - 5].args[1] = READ_FRAMEBUFFER
              /\ tr[n - 5].args[2] = gl'.readFb
              /\ tr[n - 5].args[2] \in GtkFbs => gl.drawFb = tr[n - 5].args[2]
              /\ tr[n - 4] = Ev("BindFramebuffer", <<DRAW_FRAMEBUFFER, fb>>)
              /\ tr[n - 3] = Ev("NamedFramebufferRenderbuffer",
                                <<fb, COLOR_ATTACHMENT0, RENDERBUFFER, rb>>)
              /\ tr[n - 2].op = "BlitFramebuffer"
              /\ tr[n - 1] = Ev("Flush", <<>>)
              /\ tr[n] = Ev("device.cleanup", <<>>)
              /\ \A i \in 1..(n - 7) : tr[i].op \notin BlitBackOps
              /\ \A i \in 4..(n - 7) : tr[i].op # "GetIntegerv" ]_vars

C19_Witness ==
    /\ FrameDone
    /\ Count("BlitFramebuffer") = 1
    /\ render_result = "Continue"
    /\ trace[Len(trace) - 5] = Ev("BindFramebuffer", <<READ_FRAMEBUFFER, DeviceFbo>>)
    /\ gl.drawFb \in GtkFbs

\* C20: every BlitFramebuffer of a frame copies the rectangle
\* (0, 0, target_width, target_height) of the context's current viewport onto
\* the same rectangle, colour buffer only, nearest filtering
C20_BlitRectIsTargetSize ==
    \A i \in 1..Len(trace) :
        trace[i].op = "BlitFramebuffer" =>
            trace[i].args = <<0, 0, ctx.viewport.target_width,
                              ctx.viewport.target_height,
                              0, 0, ctx.viewport.target_width,
                              ctx.viewport.target_height,
                              COLOR_BUFFER_BIT, NEAREST>>

C20_Witness ==
    /\ FrameDone
    /\ Count("BlitFramebuffer") = 1
    /\ ctx.render_target.id = 4
    /\ ctx.viewport.target_width = 1
    /\ ctx.viewport.target_height = 2
    /\ trace[Len(trace) - 2].args[3] = 1
    /\ trace[Len(trace) - 2].args[4] = 2

\* ------------------------------------------- properties of the loader chain
\* library i opened and exports s
Resolves(i, s) == libs[i].lib /\ s \in libs[i].symbols

FirstFour == <<1, 2, 3, 4>>

\* C16: a lookup consults the loaders strictly in the order process image,
\* libepoxy-0, libepoxy0, libepoxy, and stops at the first one that returns
\* an address: when the process image resolves the symbol no other loader is
\* consulted and the result is the process image's address
C16_FailoverShortCircuits ==
    lookup.called =>
        LET n == Len(lookup.consulted)
        IN /\ n \in 1..4
           /\ lookup.consulted = SubSeq(FirstFour, 1, n)
           /\ \A i \in 1..(n - 1) : ~Resolves(i, lookup.s)
           /\ n < 4 => Resolves(n, lookup.s)
           /\ Resolves(n, lookup.s) => lookup.ptr = Addr(n, lookup.s)
           /\ Resolves(CurrentModule, lookup.s) =>
                 /\ lookup.consulted = <<CurrentModule>>
                 /\ lookup.ptr = Addr(CurrentModule, lookup.s)

C16_Witness ==
    /\ lookup.called
    /\ Resolves(CurrentModule, lookup.s)
    /\ Resolves(2, lookup.s)
    /\ Resolves(4, lookup.s)
    /\ lookup.consulted = <<CurrentModule>>
    /\ lookup.ptr = Addr(CurrentModule, lookup.s)

\* C17: for a symbol no loader resolves, whether the libraries opened or
\* not, the function built by fn_from returns the null pointer and does not
\* panic
C17_UnresolvedGivesNull ==
    (lookup.called /\ \A i \in Loaders : ~Resolves(i, lookup.s)) =>
        /\ lookup.ptr = NullPtr
        /\ ~lookup.panicked

C17_Witness ==
    /\ lookup.called
    /\ \A i \in Loaders : ~Resolves(i, lookup.s)
    /\ ~libs[2].lib
    /\ ~libs[3].lib
    /\ libs[4].lib
    /\ libs[4].symbols # {}
    /\ lookup.consulted = FirstFour
    /\ lookup.ptr = NullPtr

\* the first success over a flat ordered list of loaders, null if all fail
RECURSIVE FirstSuccess(_, _)
FirstSuccess(list, s) ==
    IF list = <<>> THEN NullPtr
    ELSE IF Resolves(Head(list), s) THEN Addr(Head(list), s)
    ELSE FirstSuccess(Tail(list), s)

\* C18: for every symbol and every combination of loaders able to resolve
\* it, the nested chain built by load() returns what trying the flat list
\* [process image, libepoxy-0, libepoxy0, libepoxy] in order returns: the
\* first success, or null if all fail
C18_NestedChainEqualsFlatList ==
    lookup.called =>
        /\ lookup.ptr = FirstSuccess(FirstFour, lookup.s)
        /\ ~lookup.panicked

C18_Witness ==
    /\ lookup.called
    /\ ~Resolves(1, lookup.s)
    /\ ~Resolves(2, lookup.s)
    /\ Resolves(3, lookup.s)
    /\ Resolves(4, lookup.s)
    /\ lookup.ptr = Addr(3, lookup.s)

\* ------------------------------------------ further properties of a frame
\* C21: in every frame that reaches blit-back no encoded command is still
\* pending in the encoder when BlitFramebuffer is issued, whatever the
\* render and postprocess callbacks did
C21_EncoderFlushedBeforeBlit ==
    (FrameDone /\ Count("BlitFramebuffer") > 0) => encoder = <<>>

DestinationIs(tr, fb, rb) ==
    \A i \in 1..Len(tr) :
        /\ (tr[i].op = "BindFramebuffer" /\ tr[i].args[1] = DRAW_FRAMEBUFFER) =>
              tr[i].args[2] = fb
        /\ tr[i].op = "NamedFramebufferRenderbuffer" =>
              tr[i].args = <<fb, COLOR_ATTACHMENT0, RENDERBUFFER, rb>>

\* C22: every with_gfx call starts afresh, whatever the frame before it
\* captured or returned: it captures the bindings in force at its own entry,
\* calls render, goes on to postprocess exactly when render returned
\* Ok(Continue), and blits back exactly when the postprocess stage is Ok, onto
\* the framebuffer/renderbuffer pair captured at its own entry
C22_FramesIndependent ==
    [][ /\ (pc = "ready" /\ pc' = "render") =>
              /\ gtk_framebuffer_name' = gl.drawFb
              /\ gtk_renderbuffer_binding' = gl.rb
              /\ render_result' = "none"
              /\ postprocess_result' = "none"
              /\ Len(trace') = 3
              /\ trace'[3].op = "render"
        /\ (pc = "render" /\ pc' # "render") =>
              (pc' = "postprocess" <=> render_result' = "Continue")
        /\ (pc \in {"render", "postprocess"} /\ pc' = "idle") =>
              /\ DestinationIs(trace', entry.drawFb, entry.rb)
              /\ (postprocess_result' \in {"Continue", "Skip"}) <=>
                    (\E i \in 1..Len(trace') : trace'[i].op = "BlitFramebuffer")
              /\ (postprocess_result' \in {"Continue", "Skip"}) =>
                    gl'.drawFb = entry.drawFb ]_vars

\* the frame before failed after capturing another framebuffer, and the next
\* with_gfx call is about to start
C22_Witness ==
    /\ pc = "ready"
    /\ render_result = "Err"
    /\ postprocess_result = "Err"
    /\ gtk_framebuffer_name = 1
    /\ gl.drawFb = 2
    /\ encoder # <<>>

\* C23: the postprocess resources (sampler, pipeline state, full-screen
\* vertex and index buffers) built by the constructor are left as they are
\* by every resize and every with_gfx call
C23_PostprocessResourcesImmutable ==
    [][ctx'.postprocess_context = ctx.postprocess_context]_vars

C23_Witness ==
    /\ FrameDone
    /\ Count("BlitFramebuffer") = 1
    /\ ctx.render_target.id = 7
    /\ ctx.postprocess_context.pso = "Custom"
    /\ ctx.postprocess_context.sampler = "nearest_sampler"

\* C24: the constructor selects the 4-tap multisample-resolve pixel shader for
\* Multi(4) and the plain sampler shader for Single when no postprocess shader
\* is supplied, and the supplied shader whenever one is given
C24_ShaderSelectedAtConstruction ==
    /\ (constructed.postprocess_shader = "None" /\ constructed.aa = "Multi4") =>
          ctx.postprocess_context.pso = "POST_PIXEL_SHADER_MSAA_4X"
    /\ (constructed.postprocess_shader = "None" /\ constructed.aa = "Single") =>
          ctx.postprocess_context.pso = "POST_PIXEL_SHADER"
    /\ constructed.postprocess_shader # "None" =>
          ctx.postprocess_context.pso = constructed.postprocess_shader

C24_Witness ==
    /\ constructed.aa = "Multi4"
    /\ constructed.postprocess_shader = "Custom"
    /\ ctx.postprocess_context.pso = "Custom"
    /\ ctx.viewport.aa = "Multi4"
    /\ pc = "postprocess"

\* C25: after a frame that performed blit-back the framebuffer bound for
\* reading is the one that was bound for reading on entry to with_gfx
C25_ReadBindingRestored ==
    (FrameDone /\ Count("BlitFramebuffer") > 0) => gl.readFb = entry.readFb

\* C26: whenever with_gfx issues BlitFramebuffer the framebuffer bound for
\* reading differs from the toolkit framebuffer bound for drawing, whether or
\* not the callbacks that returned Ok encoded any draw or clear
C26_BlitNeverOntoItself ==
    (FrameDone /\ Count("BlitFramebuffer") > 0) =>
        /\ gl.readFb # gl.drawFb
        /\ gl.readFb # gtk_framebuffer_name

\* C28: a frame blits back exactly when the postprocess stage ended Ok; the
\* status inside the Ok makes no difference, so a postprocess callback that
\* returns Ok(Skip) is followed by the same blit-back calls and cleanup as one
\* that returns Ok(Continue)
C28_BlitBackIffPostprocessOk ==
    FrameDone =>
        LET n == Len(trace)
            done == Ev("BlitFramebuffer",
                       <<0, 0, ctx.viewport.target_width, ctx.viewport.target_height,
                         0, 0, ctx.viewport.target_width, ctx.viewport.target_height,
                         COLOR_BUFFER_BIT, NEAREST>>)
        IN /\ postprocess_result \in {"Continue", "Skip"} =>
                 /\ Count("BlitFramebuffer") = 1
                 /\ trace[n - 4] = Ev("BindFramebuffer",
                                      <<DRAW_FRAMEBUFFER, gtk_framebuffer_name>>)
                 /\ trace[n - 2] = done
                 /\ trace[n - 1] = Ev("Flush", <<>>)
                 /\ trace[n] = Ev("device.cleanup", <<>>)
           /\ postprocess_result \notin {"Continue", "Skip"} =>
                 /\ postprocess_result = "Err"
                 /\ NoBlitBackCall

C28_Witness ==
    /\ FrameDone
    /\ render_result = "Continue"
    /\ postprocess_result = "Skip"
    /\ Count("postprocess") = 1
    /\ Count("BlitFramebuffer") = 1
    /\ gl.drawFb = gtk_framebuffer_name

\* ------------------------------------------ further properties of resize
\* C27: after resize(w, h, _) has returned Ok the context's viewport has
\* target_width = w and target_height = h, for every aa mode and whether or
\* not targets were reallocated
C27_ViewportReportsWidgetSize ==
    (lastResize.called /\ lastResize.result = "Ok") =>
        /\ ctx.viewport.target_width = lastResize.w
        /\ ctx.viewport.target_height = lastResize.h

\* C29: when the resize hook returns Err in a dimension-changing resize,
\* resize returns Err and the context keeps the new viewport and the newly
\* allocated targets; a resize to the same size that follows allocates
\* nothing, does not call the hook, leaves the context alone and returns Ok
C29_HookErrKeepsNewTargets ==
    [][ /\ ( /\ lastResize'.called
             /\ size_changed(RequestedViewport(ctx, lastResize'), ctx.viewport)
             /\ AllAllocated(lastResize')
             /\ lastResize'.cb
             /\ lastResize'.result = "Err" )
           => /\ Len(lastResize'.hooks) = 1
              /\ ctx'.viewport = RequestedViewport(ctx, lastResize')
              /\ ctx'.render_target.id = factory.next
              /\ ctx'.render_target_source = ctx'.render_target
              /\ ctx'.depth_buffer.id = factory.next + 1
              /\ ctx'.postprocess_target.id = factory.next + 2
        /\ ( /\ lastResize.called
             /\ lastResize.result = "Err"
             /\ lastResize.hooks # <<>>
             /\ lastResize'.called
             /\ lastResize'.w = lastResize.w
             /\ lastResize'.h = lastResize.h )
           => /\ lastResize'.result = "Ok"
              /\ lastResize'.hooks = <<>>
              /\ lastResize'.log = <<>>
              /\ ctx' = ctx
              /\ factory' = factory ]_vars

C29_Witness ==
    /\ lastResize.called
    /\ lastResize.cb
    /\ lastResize.result = "Err"
    /\ Len(lastResize.hooks) = 1
    /\ ctx.viewport.target_width = lastResize.w
    /\ ctx.viewport.target_height = lastResize.h
    /\ ctx.render_target.id = 7
    /\ factory.next = 10

\* C30: for every widget width and height given to new or resize, the
\* dimensions asked of the allocator, after conversion to the 16-bit texture
\* size, are the viewport's width/height for the colour and depth targets
\* and target_width/target_height for the postprocess target, so the stored
\* targets have the size of the viewport and of the blit rectangle
C30_AllocatedSizeEqualsViewport ==
    /\ ctx.render_target.w = ctx.viewport.width
    /\ ctx.render_target.h = ctx.viewport.height
    /\ ctx.depth_buffer.w = ctx.viewport.width
    /\ ctx.depth_buffer.h = ctx.viewport.height
    /\ ctx.postprocess_target.w = ctx.viewport.target_width
    /\ ctx.postprocess_target.h = ctx.viewport.target_height
    /\ (lastResize.called /\ lastResize.log # <<>>) =>
          LET nv == RequestedViewport(ctx, lastResize)
          IN /\ lastResize.log[1].w = nv.width
             /\ lastResize.log[1].h = nv.height

====
